---------------------------- MODULE Spec2Model ----------------------------
(***************************************************************************)
(* Model of the two notebooks of wengandrew/cell-design:                   *)
(*   - the NPR variability notebook (src/unnamed/part_000): a seeded       *)
(*     Monte Carlo sampler of electrode loadings and the exceedance        *)
(*     percentage "percent_more" of cells with NPR < 1;                    *)
(*   - power_vs_energy.ipynb: sweep_c_rate, a loop that calls the external *)
(*     solver once per C-rate and accumulates energy / power metrics.      *)
(*                                                                         *)
(* Numbers.  The notebooks compute in binary floating point (numpy         *)
(* float64).  A float is modelled as a normalised rational <<n, d>> with   *)
(* d > 0; every arithmetic operation computes the exact rational result    *)
(* and rounds it to Precision significant bits, round-to-nearest, ties to  *)
(* even, as IEEE 754 does.  The exponent range is unbounded (no overflow   *)
(* or underflow).  The special values produced by a division by zero are   *)
(* <<1, 0>> (+inf), <<-1, 0>> (-inf) and <<0, 0>> (nan).                   *)
(***************************************************************************)
EXTENDS Integers, Sequences, FiniteSets, TLC

\* Significand width of the modelled binary float (float64 has 53).
Precision == 8

\* Largest number of Monte Carlo samples N per electrode.
MaxN == 3

\* Largest number of C-rates in the swept list.
MaxRates == 2

\* Largest number of time samples in one solver result.
MaxSamples == 3

-----------------------------------------------------------------------------
(* Exact rational arithmetic *)

Abs(x) == IF x < 0 THEN -x ELSE x

RECURSIVE Gcd(_, _)
Gcd(a, b) == IF b = 0 THEN a ELSE Gcd(b, a % b)

RECURSIVE Pow2(_)
Pow2(k) == IF k = 0 THEN 1 ELSE 2 * Pow2(k - 1)

\* n/d in lowest terms with positive denominator (d # 0).
Norm(n, d) ==
    LET g == Gcd(Abs(n), Abs(d))
        s == IF d < 0 THEN -1 ELSE 1
    IN  <<s * (n \div g), s * (d \div g)>>

IsFinite(a) == a[2] # 0
IsNaN(a) == a[1] = 0 /\ a[2] = 0

RAdd(a, b) ==
    LET g == Gcd(a[2], b[2])
    IN  Norm(a[1] * (b[2] \div g) + b[1] * (a[2] \div g), a[2] * (b[2] \div g))

RNeg(a) == <<-a[1], a[2]>>
RSub(a, b) == RAdd(a, RNeg(b))

RMul(a, b) ==
    LET x == Norm(a[1], b[2])
        y == Norm(b[1], a[2])
    IN  Norm(x[1] * y[1], x[2] * y[2])

\* b # 0
RDiv(a, b) == RMul(a, Norm(b[2], b[1]))

RAbs(a) == <<Abs(a[1]), a[2]>>

\* a < b and a <= b for finite rationals
RLt(a, b) == LET g == Gcd(a[2], b[2])
             IN  a[1] * (b[2] \div g) < b[1] * (a[2] \div g)
RLeq(a, b) == LET g == Gcd(a[2], b[2])
              IN  a[1] * (b[2] \div g) <= b[1] * (a[2] \div g)

Int2F(i) == <<i, 1>>

-----------------------------------------------------------------------------
(* Floating-point rounding and operations *)

\* The smallest significand of a normalised float: 2^(Precision-1).
MinSignificand == Pow2(Precision - 1)

\* Round the positive rational (n/d) * (sn/sd) to Precision significant bits:
\* scale n/d into [2^(Precision-1), 2^Precision), round to an integer
\* (ties to even), scale back.
RECURSIVE RoundPos(_, _, _, _)
RoundPos(n, d, sn, sd) ==
    IF n < MinSignificand * d THEN RoundPos(2 * n, d, sn, 2 * sd)
    ELSE IF n >= 2 * MinSignificand * d THEN RoundPos(n, 2 * d, 2 * sn, sd)
    ELSE LET m  == n \div d
             r  == n - m * d
             m2 == IF 2 * r < d THEN m
                   ELSE IF 2 * r > d THEN m + 1
                   ELSE IF m % 2 = 0 THEN m ELSE m + 1
         IN  Norm(m2 * sn, sd)

Round(a) ==
    IF a[1] = 0 THEN <<0, 1>>
    ELSE IF a[1] > 0 THEN RoundPos(a[1], a[2], 1, 1)
    ELSE RNeg(RoundPos(-a[1], a[2], 1, 1))

\* The operands of the sums and differences of the notebooks are finite.
FAdd(a, b) == Round(RAdd(a, b))
FSub(a, b) == Round(RSub(a, b))

\* nan * x is nan, 0 * inf is nan, inf * x is inf with the product's sign.
FMul(a, b) ==
    IF IsFinite(a) /\ IsFinite(b) THEN Round(RMul(a, b))
    ELSE IF IsNaN(a) \/ IsNaN(b) \/ a[1] = 0 \/ b[1] = 0 THEN <<0, 0>>
    ELSE IF (a[1] > 0) = (b[1] > 0) THEN <<1, 0>> ELSE <<-1, 0>>

\* numpy true division: x/0 is +-inf, 0/0 is nan (a warning, not an error).
\* The dividends of the notebooks are finite.
FDiv(a, b) ==
    IF b[1] = 0
    THEN (IF a[1] > 0 THEN <<1, 0>> ELSE IF a[1] < 0 THEN <<-1, 0>> ELSE <<0, 0>>)
    ELSE Round(RDiv(a, b))

\* IEEE comparison a < b: false when either side is nan.
FLess(a, b) ==
    IF IsNaN(a) \/ IsNaN(b) THEN FALSE
    ELSE IF ~IsFinite(a) THEN a[1] < 0 /\ (IsFinite(b) \/ b[1] > 0)
    ELSE IF ~IsFinite(b) THEN b[1] > 0
    ELSE RLt(a, b)

\* IEEE comparison a <= b: false when either side is nan.
FLeq(a, b) == ~IsNaN(a) /\ ~IsNaN(b) /\ (a = b \/ FLess(a, b))

\* A decimal literal num/den of the source text, read as a float.
Lit(num, den) == Round(Norm(num, den))

-----------------------------------------------------------------------------
(* power_vs_energy.ipynb: the external solver boundary *)

\* Rates that may appear in the swept list (duplicates allowed).
RateValues == {1, 2}

\* First time sample and time steps of a solver result [s].
TimeStarts == {0, 1}
TimeSteps == {1, 2}

\* Instantaneous power values of a solver result [W].
PowerValues == {3, 100, 174}
PowerLow == CHOOSE p \in PowerValues : \A q \in PowerValues : p <= q
PowerHigh == CHOOSE p \in PowerValues : \A q \in PowerValues : q <= p

\* Terminal voltages of a solver result [V]: the last sample is at the cutoff
\* of the experiment, "until 2.5V".
VoltageStart == Lit(42, 10)
VoltageCutoff == Lit(25, 10)

\* All sequences of length n over S.
SeqsOfLen(S, n) == [1..n -> S]

\* Strictly increasing time series of length n.
RECURSIVE TimeFrom(_, _)
TimeFrom(t0, steps) ==
    IF steps = <<>> THEN <<Int2F(t0)>>
    ELSE <<Int2F(t0)>> \o TimeFrom(t0 + Head(steps), Tail(steps))

TimeSeries(n) ==
    {TimeFrom(t0, steps) : t0 \in TimeStarts, steps \in SeqsOfLen(TimeSteps, n - 1)}

\* Power series of length n: constant, or dropping once to a lower value.
PowerSeries(n) ==
    {[k \in 1..n |-> Int2F(p)] : p \in PowerValues}
    \cup {[k \in 1..n |-> IF k < n THEN Int2F(PowerHigh) ELSE Int2F(PowerLow)]}

VoltageSeries(n) == [k \in 1..n |-> IF k < n THEN VoltageStart ELSE VoltageCutoff]

\* The time-aligned series a successful solve makes addressable by name
\* (sol["Time [s]"].data, sol["Power [W]"].data, sol["Voltage [V]"].data).
SolverResults ==
    UNION {{[time |-> t, power |-> p, voltage |-> VoltageSeries(n)] :
                t \in TimeSeries(n), p \in PowerSeries(n)} : n \in 1..MaxSamples}

\* The solutions explored when the swept list has several rates: one power
\* level and the smallest time step, so that a long sweep stays small while a
\* sweep of one rate ranges over every solver result.
CoarseResults ==
    {r \in SolverResults :
        /\ \A k \in 1..Len(r.power) : r.power[k] = Int2F(PowerHigh)
        /\ \A k \in 2..Len(r.time) : RSub(r.time[k], r.time[k - 1]) = Int2F(1)}

ResultsFor(rates) == IF Len(rates) <= 1 THEN SolverResults ELSE CoarseResults

\* The solutions explored for the sweep of the power cell: a single sample.
PowerCellResults == {r \in CoarseResults : Len(r.time) = 1}

\* pybamm.Experiment([f"Discharge at {C_rate}C until 2.5V"])
Experiment(C_rate) == <<"Discharge at ", C_rate, "C until 2.5V">>

-----------------------------------------------------------------------------
(* power_vs_energy.ipynb: the numpy expressions of sweep_c_rate *)

\* np.diff(time, prepend=time[0]): the first interval measured from the first
\* sample instead of from time 0.
NpAppendFirst(time) == <<time[1]>> \o time

\* np.append(0, time)
NpAppend0(time) == <<Int2F(0)>> \o time

\* np.diff(a): a[k+1] - a[k]
NpDiff(a) == [k \in 1..(Len(a) - 1) |-> FSub(a[k + 1], a[k])]

\* power * dt, elementwise
NpMul(x, y) == [k \in 1..Len(x) |-> FMul(x[k], y[k])]

\* The products left as they are, not accumulated.
NpNoCumsum(x) == x

\* np.cumsum(x): running sums, accumulated left to right
RECURSIVE NpCumsum(_)
NpCumsum(x) ==
    IF Len(x) <= 1 THEN x
    ELSE LET c == NpCumsum(SubSeq(x, 1, Len(x) - 1))
         IN  Append(c, FAdd(c[Len(c)], x[Len(x)]))

\* x / 3600, elementwise
NpDivScalar(x, c) == [k \in 1..Len(x) |-> FDiv(x[k], c)]

\* energy = np.cumsum(power * np.diff(np.append(0, time))) / 3600
Energy(time, power) ==
    NpDivScalar(NpCumsum(NpMul(power, NpDiff(NpAppend0(time)))), Int2F(3600))

\* energy[-1]
Last(x) == x[Len(x)]

\* np.mean(x): the sum of the elements divided by their count
NpSum(x) == Last(NpCumsum(x))
NpMean(x) == FDiv(NpSum(x), Int2F(Len(x)))

-----------------------------------------------------------------------------
(* power_vs_energy.ipynb: state of the sweep *)

VARIABLES
    C_rates,              \* the argument list of sweep_c_rate
    spc,                  \* position in sweep_c_rate: idle, loop, solved, returned, raised
    i,                    \* number of list elements the for loop has consumed
    outputs,              \* the local aggregate of sweep_c_rate
    sol,                  \* the solution of the current iteration
    calls,                \* history: every solver invocation and what it gave
    outputs_energy_cell,  \* the notebook variable bound to the returned aggregate
    cell,                 \* the notebook cell whose sweep runs: energy, power
    outputs_power_cell    \* the notebook variable bound by the power cell's sweep

sweepVars == <<C_rates, spc, i, outputs, sol, calls, outputs_energy_cell,
               cell, outputs_power_cell>>

\* A name that is not bound: Unbound where aggregates and solutions are held,
\* NoValue where floats are held, Unset where arrays and counts are held.
Unbound == [unbound |-> TRUE]
NoValue == <<>>
Unset == "unset"

\* What a failed solver call gives instead of a solution.
SolverError == [error |-> TRUE]

MetricKeys == {"Energy [Wh]", "Discharge Energy [Wh]", "Time [s]",
               "Voltage [V]", "Mean Power [W]"}
OutputKeys == {"C-rate"} \cup MetricKeys

\* Lists of at most n rates.
RateLists(n) == UNION {SeqsOfLen(RateValues, k) : k \in 0..n}

\* The rate list wrapped in another list.
InitialOutputsWrapped(rates) ==
    [key \in OutputKeys |-> IF key = "C-rate" THEN <<rates>> ELSE <<>>]

\* outputs = {"C-rate": C_rates, "Energy [Wh]": [], ...}
InitialOutputs(rates) ==
    [key \in OutputKeys |-> IF key = "C-rate" THEN rates ELSE <<>>]

\* for C_rate in C_rates: the iterator has another element
HasNext(rates, k) == k < Len(rates)

\* The voltage inserted at the front of its list instead of appended.
AppendMetricsVoltageFront(out, s) ==
    LET energy == Energy(s.time, s.power)
        discharge_energy == Last(energy)
    IN  [out EXCEPT
            !["Voltage [V]"] = <<s.voltage>> \o @,
            !["Time [s]"] = Append(@, s.time),
            !["Energy [Wh]"] = Append(@, energy),
            !["Discharge Energy [Wh]"] = Append(@, discharge_energy),
            !["Mean Power [W]"] = Append(@, NpMean(s.power))]

\* The five appends that end one loop iteration.
AppendMetrics(out, s) ==
    LET energy == Energy(s.time, s.power)
        discharge_energy == Last(energy)
    IN  [out EXCEPT
            !["Voltage [V]"] = Append(@, s.voltage),
            !["Time [s]"] = Append(@, s.time),
            !["Energy [Wh]"] = Append(@, energy),
            !["Discharge Energy [Wh]"] = Append(@, discharge_energy),
            !["Mean Power [W]"] = Append(@, NpMean(s.power))]

-----------------------------------------------------------------------------
(* NPR variability notebook: constants, generator and numpy expressions *)

NEG_QSP == Int2F(372)
POS_QSP == Int2F(224)

\* The parameter values of the notebook as written.
NEG_LOADING_MEAN == Lit(1485, 100)
POS_LOADING_MEAN == Lit(2469, 100)
NEG_LOADING_CV == Lit(2, 100)
POS_LOADING_CV == Lit(3, 100)
ANODE_LOADING_INCREASE_FACTOR == Lit(105, 100)
SEED == 42

\* POS_LOADING_CV as rebound by the "decreasing positive loading variability" cell.
POS_LOADING_CV_NEW == Lit(15, 1000)

\* Electrode designs the sampler is run with: the notebook's own, one with a
\* spread so wide that draws reach zero and below, a thicker and a thinner anode.
NominalDesign ==
    [negMean |-> NEG_LOADING_MEAN, posMean |-> POS_LOADING_MEAN,
     negCV |-> NEG_LOADING_CV, posCV |-> POS_LOADING_CV]

Designs ==
    { NominalDesign,
      [negMean |-> NEG_LOADING_MEAN, posMean |-> POS_LOADING_MEAN,
       negCV |-> Int2F(1), posCV |-> Int2F(1)],
      [negMean |-> Int2F(16), posMean |-> POS_LOADING_MEAN,
       negCV |-> NEG_LOADING_CV, posCV |-> POS_LOADING_CV],
      [negMean |-> Int2F(13), posMean |-> POS_LOADING_MEAN,
       negCV |-> NEG_LOADING_CV, posCV |-> POS_LOADING_CV] }

Factors == {Int2F(1), ANODE_LOADING_INCREASE_FACTOR, Int2F(2)}

Seeds == {SEED, 7}

Configs ==
    {[seed |-> sd, N |-> n, design |-> d, factor |-> f] :
        sd \in Seeds, n \in 0..MaxN, d \in Designs, f \in Factors}

\* The process-wide generator of np.random: a deterministic stream of
\* standard-normal variates determined by its state.
RngStates == 0..7

\* np.random.seed(x): the state is a function of the seed alone.
RngSeed(x) == x % 8

\* Advance the generator by one variate.
RngStep(s) == (5 * s + 3) % 8

\* The standard-normal variate the generator yields in state s.
Gauss(s) == Int2F((s % 5) - 2)

\* np.random.normal(loc, scale, n): n variates loc + scale * z drawn in order
\* from state s; gives the samples and the generator state afterwards.
RECURSIVE RandomNormal(_, _, _, _)
RandomNormal(loc, scale, n, s) ==
    IF n = 0 THEN [samples |-> <<>>, rng |-> s]
    ELSE LET rest == RandomNormal(loc, scale, n - 1, RngStep(s))
         IN  [samples |-> <<FAdd(loc, FMul(scale, Gauss(s)))>> \o rest.samples,
              rng |-> rest.rng]

\* loading * QSP / 1000
ArealCapacity(loading, qsp) ==
    [k \in 1..Len(loading) |-> FDiv(FMul(loading[k], qsp), Int2F(1000))]

\* neg_areal_capacity / factor, elementwise
ScaleDown(x, f) == [k \in 1..Len(x) |-> FDiv(x[k], f)]

\* neg_areal_capacity * factor, elementwise
Scale(x, f) == [k \in 1..Len(x) |-> FMul(x[k], f)]

\* neg / pos, elementwise
Ratio(neg, pos) == [k \in 1..Len(neg) |-> FDiv(neg[k], pos[k])]

\* (npr_actual < 1).sum()
CountBelow(npr, threshold) ==
    Cardinality({k \in 1..Len(npr) : FLess(npr[k], threshold)})

\* The samples below the threshold counted against those at or above it.
ExceedanceOdds(npr) ==
    FDiv(Int2F(CountBelow(npr, Int2F(1))),
         Int2F(Len(npr) - CountBelow(npr, Int2F(1))))

\* (npr_actual < 1).sum() / len(npr_actual)
ExceedanceFraction(npr) ==
    FDiv(Int2F(CountBelow(npr, Int2F(1))), Int2F(Len(npr)))

\* percent_more = (npr_actual < 1).sum() / len(npr_actual) * 100
PercentMore(npr) == FMul(ExceedanceFraction(npr), Int2F(100))

-----------------------------------------------------------------------------
(* NPR variability notebook: state of the kernel *)

VARIABLES
    cfg,                    \* the parameter values the cells are run with
    npc,                    \* the next cell of the notebook to run
    run,                    \* 1 for the first complete run, 2 for the repeated run
    rng,                    \* state of the process-wide generator
    neg_loading_std,
    pos_loading_std,
    N,
    neg_loading,
    pos_loading,
    neg_areal_capacity,
    pos_areal_capacity,
    pos_areal_capacity_new,
    npr_actual,
    percent_more,
    draws,                  \* history: the arrays np.random.normal returned in this run
    titles,                 \* history: the percentage each scenario cell reported in this run
    first                   \* history: draws and titles of the first run

samplerVars == <<cfg, npc, run, rng, neg_loading_std, pos_loading_std, N,
                 neg_loading, pos_loading, neg_areal_capacity, pos_areal_capacity,
                 pos_areal_capacity_new, npr_actual, percent_more, draws, titles, first>>

vars == <<sweepVars, samplerVars>>

NoTitles == [baseline |-> NoValue, scenario2 |-> NoValue, scenario3 |-> NoValue]

\* A fresh kernel: no name is bound, the generator is seeded from OS entropy.
FreshNamespace ==
    /\ neg_loading_std = NoValue
    /\ pos_loading_std = NoValue
    /\ N = Unset
    /\ neg_loading = Unset
    /\ pos_loading = Unset
    /\ neg_areal_capacity = Unset
    /\ pos_areal_capacity = Unset
    /\ pos_areal_capacity_new = Unset
    /\ npr_actual = Unset
    /\ percent_more = NoValue
    /\ draws = <<>>
    /\ titles = NoTitles

SamplerIdle ==
    /\ cfg = [seed |-> SEED, N |-> 0, design |-> NominalDesign,
              factor |-> ANODE_LOADING_INCREASE_FACTOR]
    /\ npc = "seed"
    /\ run = 1
    /\ rng = 0
    /\ first = Unbound
    /\ FreshNamespace

SweepIdle ==
    /\ C_rates = <<>>
    /\ spc = "idle"
    /\ i = 0
    /\ outputs = Unbound
    /\ sol = Unbound
    /\ calls = <<>>
    /\ outputs_energy_cell = Unbound
    /\ cell = "energy"
    /\ outputs_power_cell = Unbound

-----------------------------------------------------------------------------
(* NPR variability notebook: the cells, run top to bottom *)

\* The seed cell left out of the run: the generator keeps its entropy state.
SeedCellSkipped ==
    /\ npc = "seed"
    /\ npc' = "params"
    /\ UNCHANGED <<sweepVars, cfg, run, rng, neg_loading_std, pos_loading_std, N,
                   neg_loading, pos_loading, neg_areal_capacity, pos_areal_capacity,
                   pos_areal_capacity_new, npr_actual, percent_more, draws,
                   titles, first>>

\* np.random.seed(42)
SeedCell ==
    /\ npc = "seed"
    /\ rng' = RngSeed(cfg.seed)
    /\ npc' = "params"
    /\ UNCHANGED <<sweepVars, cfg, run, neg_loading_std, pos_loading_std, N, neg_loading,
                   pos_loading, neg_areal_capacity, pos_areal_capacity,
                   pos_areal_capacity_new, npr_actual, percent_more, draws,
                   titles, first>>

\* "Initialize constants"
ParamsCell ==
    /\ npc = "params"
    /\ neg_loading_std' = FMul(cfg.design.negMean, cfg.design.negCV)
    /\ pos_loading_std' = FMul(cfg.design.posMean, cfg.design.posCV)
    /\ npc' = "sample"
    /\ UNCHANGED <<sweepVars, cfg, run, rng, N, neg_loading, pos_loading, neg_areal_capacity,
                   pos_areal_capacity, pos_areal_capacity_new, npr_actual,
                   percent_more, draws, titles, first>>

\* "Monte carlo sampling"
SampleCell ==
    /\ npc = "sample"
    /\ LET neg == RandomNormal(cfg.design.negMean, neg_loading_std, cfg.N, rng)
           pos == RandomNormal(cfg.design.posMean, pos_loading_std, cfg.N, neg.rng)
       IN  /\ N' = cfg.N
           /\ neg_loading' = neg.samples
           /\ pos_loading' = pos.samples
           /\ neg_areal_capacity' = ArealCapacity(neg.samples, NEG_QSP)
           /\ pos_areal_capacity' = ArealCapacity(pos.samples, POS_QSP)
           /\ rng' = pos.rng
           /\ draws' = draws \o <<neg.samples, pos.samples>>
    /\ npc' = "baseline"
    /\ UNCHANGED <<sweepVars, cfg, run, neg_loading_std, pos_loading_std,
                   pos_areal_capacity_new, npr_actual, percent_more, titles, first>>

\* A scenario cell without its opening np.min / np.max lines: the ratio and the
\* percentage are computed whatever the length of the arrays.
ScenarioCellNoRange(name, next, neg, pos) ==
    /\ npr_actual' = Ratio(neg, pos)
    /\ percent_more' = PercentMore(Ratio(neg, pos))
    /\ titles' = [titles EXCEPT ![name] = PercentMore(Ratio(neg, pos))]
    /\ npc' = next
    /\ UNCHANGED <<sweepVars, cfg, run, rng, neg_loading_std, pos_loading_std, N,
                   neg_loading, pos_loading, neg_areal_capacity, pos_areal_capacity,
                   pos_areal_capacity_new, draws, first>>

\* A scenario cell opens with np.min / np.max of the positive capacities,
\* which raise ValueError on an empty array; the run stops at the failed cell.
ScenarioCell(name, next, neg, pos) ==
    /\ IF Len(pos) = 0
       THEN /\ npc' = "error"
            /\ UNCHANGED <<npr_actual, percent_more, titles>>
       ELSE /\ npr_actual' = Ratio(neg, pos)
            /\ percent_more' = PercentMore(Ratio(neg, pos))
            /\ titles' = [titles EXCEPT ![name] = PercentMore(Ratio(neg, pos))]
            /\ npc' = next
    /\ UNCHANGED <<sweepVars, cfg, run, rng, neg_loading_std, pos_loading_std, N,
                   neg_loading, pos_loading, neg_areal_capacity, pos_areal_capacity,
                   pos_areal_capacity_new, draws, first>>

\* "Plot the base case"
BaselineCell ==
    /\ npc = "baseline"
    /\ ScenarioCell("baseline", "scenario2", neg_areal_capacity, pos_areal_capacity)

\* Scenario 2 with the positive loading drawn afresh before the ratio.
Scenario2CellResampled ==
    /\ npc = "scenario2"
    /\ LET pos == RandomNormal(cfg.design.posMean, pos_loading_std, cfg.N, rng)
           cap == ArealCapacity(pos.samples, POS_QSP)
           npr == Ratio(Scale(neg_areal_capacity, cfg.factor), cap)
       IN  /\ pos_loading' = pos.samples
           /\ pos_areal_capacity' = cap
           /\ rng' = pos.rng
           /\ draws' = Append(draws, pos.samples)
           /\ IF cfg.N = 0
              THEN /\ npc' = "error"
                   /\ UNCHANGED <<npr_actual, percent_more, titles>>
              ELSE /\ npr_actual' = npr
                   /\ percent_more' = PercentMore(npr)
                   /\ titles' = [titles EXCEPT !.scenario2 = PercentMore(npr)]
                   /\ npc' = "cv"
    /\ UNCHANGED <<sweepVars, cfg, run, neg_loading_std, pos_loading_std, N,
                   neg_loading, neg_areal_capacity, pos_areal_capacity_new, first>>

\* "Explore the effect of increasing anode loading target"
Scenario2Cell ==
    /\ npc = "scenario2"
    /\ ScenarioCell("scenario2", "cv",
                    Scale(neg_areal_capacity, cfg.factor), pos_areal_capacity)

\* "Explore the effect of decreasing positive loading variability": the draw
CvCell ==
    /\ npc = "cv"
    /\ LET std == FMul(cfg.design.posMean, POS_LOADING_CV_NEW)
           pos == RandomNormal(cfg.design.posMean, std, cfg.N, rng)
       IN  /\ pos_loading_std' = std
           /\ N' = cfg.N
           /\ pos_loading' = pos.samples
           /\ pos_areal_capacity_new' = ArealCapacity(pos.samples, POS_QSP)
           /\ rng' = pos.rng
           /\ draws' = Append(draws, pos.samples)
    /\ npc' = "scenario3"
    /\ UNCHANGED <<sweepVars, cfg, run, neg_loading_std, neg_loading, neg_areal_capacity,
                   pos_areal_capacity, npr_actual, percent_more, titles, first>>

\* "Explore the effect of decreasing positive loading CV"
Scenario3Cell ==
    /\ npc = "scenario3"
    /\ ScenarioCell("scenario3", "done",
                    Scale(neg_areal_capacity, cfg.factor), pos_areal_capacity_new)

\* Restart the kernel and run the notebook again with the same parameters.
RunAgain ==
    /\ npc \in {"done", "error"}
    /\ run = 1
    /\ first' = [draws |-> draws, titles |-> titles, npc |-> npc]
    /\ run' = 2
    /\ npc' = "seed"
    /\ rng' \in RngStates
    /\ neg_loading_std' = NoValue
    /\ pos_loading_std' = NoValue
    /\ N' = Unset
    /\ neg_loading' = Unset
    /\ pos_loading' = Unset
    /\ neg_areal_capacity' = Unset
    /\ pos_areal_capacity' = Unset
    /\ pos_areal_capacity_new' = Unset
    /\ npr_actual' = Unset
    /\ percent_more' = NoValue
    /\ draws' = <<>>
    /\ titles' = NoTitles
    /\ UNCHANGED <<sweepVars, cfg>>

SamplerInit ==
    /\ cfg \in Configs
    /\ npc = "seed"
    /\ run = 1
    /\ rng \in RngStates
    /\ first = Unbound
    /\ FreshNamespace
    /\ SweepIdle

SamplerNext ==
    \/ SeedCell
    \/ ParamsCell
    \/ SampleCell
    \/ BaselineCell
    \/ Scenario2Cell
    \/ CvCell
    \/ Scenario3Cell
    \/ RunAgain

SamplerSpec == SamplerInit /\ [][SamplerNext]_vars

-----------------------------------------------------------------------------
(* power_vs_energy.ipynb: sweep_c_rate, one step per solver call *)

\* The solutions the solver may return to the running sweep.
Solutions == IF cell = "energy" THEN ResultsFor(C_rates) ELSE PowerCellResults

\* outputs_energy_cell = sweep_c_rate(C_rates, parameter_values): entry
CallSweep ==
    /\ spc = "idle"
    /\ outputs' = InitialOutputs(C_rates)
    /\ i' = 0
    /\ spc' = "loop"
    /\ UNCHANGED <<samplerVars, C_rates, sol, calls, outputs_energy_cell,
                   cell, outputs_power_cell>>

\* The solve wrapped in a retry: the solver is invoked a second time for the
\* same experiment and the second solution is kept.
SolveReturnsRetried ==
    /\ spc = "loop"
    /\ HasNext(C_rates, i)
    /\ \E r1 \in Solutions, r2 \in Solutions :
          /\ sol' = r2
          /\ calls' = calls \o <<[experiment |-> Experiment(C_rates[i + 1]),
                                   result |-> r1],
                                  [experiment |-> Experiment(C_rates[i + 1]),
                                   result |-> r2]>>
    /\ spc' = "solved"
    /\ UNCHANGED <<samplerVars, C_rates, i, outputs, outputs_energy_cell,
                   cell, outputs_power_cell>>

\* sol = sim.solve(initial_soc=1): the blocking call returns a solution
SolveReturns ==
    /\ spc = "loop"
    /\ HasNext(C_rates, i)
    /\ \E r \in Solutions :
          /\ sol' = r
          /\ calls' = Append(calls, [experiment |-> Experiment(C_rates[i + 1]),
                                     result |-> r])
    /\ spc' = "solved"
    /\ UNCHANGED <<samplerVars, C_rates, i, outputs, outputs_energy_cell,
                   cell, outputs_power_cell>>

\* The failure caught inside the loop: the sweep point is skipped and the
\* loop goes on with the next rate.
SolveRaisesCaught ==
    /\ spc = "loop"
    /\ HasNext(C_rates, i)
    /\ calls' = Append(calls, [experiment |-> Experiment(C_rates[i + 1]),
                               result |-> SolverError])
    /\ i' = i + 1
    /\ spc' = "loop"
    /\ UNCHANGED <<samplerVars, C_rates, outputs, sol, outputs_energy_cell,
                   cell, outputs_power_cell>>

\* sol = sim.solve(initial_soc=1): the call raises; nothing in sweep_c_rate
\* catches it, so the exception leaves the function.
SolveRaises ==
    /\ spc = "loop"
    /\ HasNext(C_rates, i)
    /\ calls' = Append(calls, [experiment |-> Experiment(C_rates[i + 1]),
                               result |-> SolverError])
    /\ spc' = "raised"
    /\ UNCHANGED <<samplerVars, C_rates, i, outputs, sol, outputs_energy_cell,
                   cell, outputs_power_cell>>

\* The aggregate kept between calls (built once, as a default argument value):
\* the appends of the power cell's sweep land in the lists of the aggregate
\* the first call returned.
RecordShared ==
    /\ spc = "solved"
    /\ outputs' = AppendMetrics(outputs, sol)
    /\ outputs_energy_cell' = IF cell = "power"
                                THEN AppendMetrics(outputs_energy_cell, sol)
                                ELSE outputs_energy_cell
    /\ i' = i + 1
    /\ spc' = "loop"
    /\ UNCHANGED <<samplerVars, C_rates, sol, calls, cell, outputs_power_cell>>

\* The rest of the loop body: the metrics of sol and the five appends.
Record ==
    /\ spc = "solved"
    /\ outputs' = AppendMetrics(outputs, sol)
    /\ i' = i + 1
    /\ spc' = "loop"
    /\ UNCHANGED <<samplerVars, C_rates, sol, calls, outputs_energy_cell,
                   cell, outputs_power_cell>>

\* return outputs, bound by the calling cell to its own name
Return ==
    /\ spc = "loop"
    /\ ~HasNext(C_rates, i)
    /\ IF cell = "energy"
       THEN /\ outputs_energy_cell' = outputs
            /\ UNCHANGED outputs_power_cell
       ELSE /\ outputs_power_cell' = outputs
            /\ UNCHANGED outputs_energy_cell
    /\ spc' = "returned"
    /\ UNCHANGED <<samplerVars, C_rates, i, outputs, sol, calls, cell>>

\* outputs_power_cell = sweep_c_rate(C_rates, parameter_values_power_cell):
\* entry. The cell runs after the energy cell's sweep has returned; the call
\* gets the same list C_rates and builds a new aggregate with new lists.
CallSweepPowerCell ==
    /\ spc = "returned"
    /\ cell = "energy"
    /\ cell' = "power"
    /\ outputs' = InitialOutputs(C_rates)
    /\ i' = 0
    /\ sol' = Unbound
    /\ spc' = "loop"
    /\ UNCHANGED <<samplerVars, C_rates, calls, outputs_energy_cell,
                   outputs_power_cell>>

SweepInit ==
    /\ C_rates \in RateLists(MaxRates)
    /\ spc = "idle"
    /\ i = 0
    /\ outputs = Unbound
    /\ sol = Unbound
    /\ calls = <<>>
    /\ outputs_energy_cell = Unbound
    /\ cell = "energy"
    /\ outputs_power_cell = Unbound
    /\ SamplerIdle

SweepNext ==
    \/ CallSweep
    \/ SolveReturns
    \/ SolveRaises
    \/ Record
    \/ Return

SweepSpec == SweepInit /\ [][SweepNext]_vars

\* The notebook run on through the power cell: both sweeps over one rate
\* list. Two rates are enough for a sweep to append after an earlier entry.
TwoSweepInit ==
    /\ SweepInit
    /\ Len(C_rates) <= 2

TwoSweepNext ==
    \/ CallSweep
    \/ SolveReturns
    \/ SolveRaises
    \/ Record
    \/ Return
    \/ CallSweepPowerCell

TwoSweepSpec == TwoSweepInit /\ [][TwoSweepNext]_vars

-----------------------------------------------------------------------------
(* Properties of sweep_c_rate, checked under SweepSpec *)

\* The sweep has started and no solver call has failed.
SweepRunning == spc \in {"loop", "solved", "returned"}

\* Number of loop iterations whose results are in the aggregate.
Recorded == IF spc = "idle" THEN 0 ELSE Len(outputs["Mean Power [W]"])

IsConstant(x) == \A k \in 1..Len(x) : x[k] = x[1]

\* The expression P * T / 3600 evaluated in the notebook's arithmetic.
ClosedFormEnergy(P, T) == FDiv(FMul(P, T), Int2F(3600))

\* |x - exact| <= gamma(k) * |exact|, gamma(k) = k*u / (1 - k*u), u = 2^-Precision:
\* x is exact up to k roundings.
WithinRoundings(x, exact, k) ==
    RLeq(RMul(RAbs(RSub(x, exact)), Int2F(Pow2(Precision) - k)),
         RMul(Int2F(k), RAbs(exact)))

\* C3 as stated: for a solver result with constant power P over duration T the
\* recorded discharge energy equals P * T / 3600 exactly and the recorded mean
\* power equals P exactly.
C3_ExactClosedForm ==
    \A j \in 1..Recorded :
        LET r == calls[j].result
        IN  IsConstant(r.power) =>
              /\ outputs["Discharge Energy [Wh]"][j]
                   = ClosedFormEnergy(r.power[1], Last(r.time))
              /\ outputs["Mean Power [W]"][j] = r.power[1]

\* C3 amended: for constant power P at n increasing sample times, the last of
\* them T, the recorded discharge energy equals the real number P * T / 3600 up
\* to n + 2 roundings and the recorded mean power equals P up to n roundings.
C3_ClosedFormUpToRounding ==
    \A j \in 1..Recorded :
        LET r == calls[j].result
            n == Len(r.time)
        IN  IsConstant(r.power) =>
              /\ WithinRoundings(outputs["Discharge Energy [Wh]"][j],
                     RDiv(RMul(r.power[1], Last(r.time)), Int2F(3600)), n + 2)
              /\ WithinRoundings(outputs["Mean Power [W]"][j], r.power[1], n)

\* C3 witness: a recorded run of constant power whose mean power was rounded
\* away from P and whose energy is not the closed form's float value.
C3_Witness ==
    \E j \in 1..Recorded :
        LET r == calls[j].result
        IN  /\ IsConstant(r.power)
            /\ Len(r.time) >= 3
            /\ outputs["Mean Power [W]"][j] # r.power[1]

\* C4: sweeping an empty rate list returns normally, without any solver
\* invocation, an aggregate whose every key maps to an empty sequence.
C4_EmptySweep ==
    C_rates = <<>> =>
        /\ spc \in {"idle", "loop", "returned"}
        /\ calls = <<>>
        /\ (spc = "loop" => ENABLED Return)
        /\ (spc = "returned" =>
              \A key \in OutputKeys : outputs_energy_cell[key] = <<>>)

\* C4 witness: a sweep of the empty list has returned its aggregate.
C4_Witness == C_rates = <<>> /\ spc = "returned" /\ outputs_energy_cell # Unbound

\* C5: while every solver call succeeds, after k rates have been processed every
\* metric sequence has length k and entry j holds what was computed from the
\* solver run for rate j of the list; on return all sequences have the length of
\* the list and are aligned with 'C-rate'.
C5_AlignedAccumulation ==
    SweepRunning =>
        /\ \A key \in MetricKeys : Len(outputs[key]) = i
        /\ outputs["C-rate"] = C_rates
        /\ \A j \in 1..i :
              LET r == calls[j].result
              IN  /\ calls[j].experiment = Experiment(C_rates[j])
                  /\ outputs["Time [s]"][j] = r.time
                  /\ outputs["Voltage [V]"][j] = r.voltage
                  /\ outputs["Energy [Wh]"][j] = Energy(r.time, r.power)
                  /\ outputs["Discharge Energy [Wh]"][j] = Last(Energy(r.time, r.power))
                  /\ outputs["Mean Power [W]"][j] = NpMean(r.power)
        /\ (spc = "returned" =>
              /\ i = Len(C_rates)
              /\ outputs_energy_cell = outputs
              /\ \A key \in OutputKeys : Len(outputs_energy_cell[key]) = Len(C_rates))

\* C5 witness: a sweep of two different rates has returned, and its two
\* solver runs gave series of different lengths.
C5_Witness ==
    /\ spc = "returned"
    /\ Len(C_rates) = 2
    /\ C_rates[1] # C_rates[2]
    /\ calls[1].result.time # calls[2].result.time
    /\ Len(calls[1].result.power) # Len(calls[2].result.power)

\* C6: a solver failure at sweep index i aborts the sweep: it propagates, no
\* later rate is solved, the failed rate is not retried, nothing is recorded for
\* it, and no aggregate is returned.
C6_FailureAborts ==
    /\ [](\A j \in 1..Len(calls) :
              calls[j].result = SolverError => (spc = "raised" /\ j = Len(calls)))
    /\ [](spc = "raised" =>
              /\ Len(calls) = i + 1
              /\ calls[i + 1] = [experiment |-> Experiment(C_rates[i + 1]),
                                 result |-> SolverError]
              /\ \A key \in MetricKeys : Len(outputs[key]) = i
              /\ outputs_energy_cell = Unbound)
    /\ [][spc = "raised" => UNCHANGED sweepVars]_vars

\* C6 witness: the solver failed for the second of two rates, after the first
\* had been recorded.
C6_Witness == spc = "raised" /\ i = 1 /\ Len(C_rates) = 2

\* C9: while every solver call succeeds the solver is invoked once per element
\* of the rate list, in list order; a call has completed before its results are
\* appended and before the next call; on return the number of invocations is
\* the length of the list.
C9_OneCallPerRate ==
    SweepRunning =>
        /\ Len(calls) = (IF spc = "solved" THEN i + 1 ELSE i)
        /\ Recorded = i
        /\ Len(calls) <= Len(C_rates)
        /\ \A j \in 1..Len(calls) : calls[j].experiment = Experiment(C_rates[j])
        /\ (spc = "solved" => sol = calls[i + 1].result)
        /\ (spc = "returned" => Len(calls) = Len(C_rates))

\* C9 witness: a sweep of a list holding the same rate twice has returned
\* after two solver calls.
C9_Witness ==
    /\ spc = "returned"
    /\ Len(C_rates) = 2
    /\ C_rates[1] = C_rates[2]
    /\ Len(calls) = 2

\* The recurrence of C10, every operation in the notebook's arithmetic:
\* e[1] = power[1] * (time[1] - 0) / 3600,
\* e[k] = e[k-1] + power[k] * (time[k] - time[k-1]) / 3600.
RECURSIVE EnergyRecurrence(_, _, _)
EnergyRecurrence(time, power, k) ==
    IF k = 1
    THEN FDiv(FMul(power[1], FSub(time[1], Int2F(0))), Int2F(3600))
    ELSE FAdd(EnergyRecurrence(time, power, k - 1),
              FDiv(FMul(power[k], FSub(time[k], time[k - 1])), Int2F(3600)))

\* The running sum s[1] = power[1] * (time[1] - 0),
\* s[k] = s[k-1] + power[k] * (time[k] - time[k-1]).
RECURSIVE RunningSum(_, _, _)
RunningSum(time, power, k) ==
    IF k = 1
    THEN FMul(power[1], FSub(time[1], Int2F(0)))
    ELSE FAdd(RunningSum(time, power, k - 1),
              FMul(power[k], FSub(time[k], time[k - 1])))

\* C10 as stated: the recorded cumulative energy has the length of the time
\* series, satisfies the recurrence energy[k] = energy[k-1] + power[k] *
\* (time[k] - time[k-1]) / 3600 from energy[0] = power[0] * (time[0] - 0) / 3600,
\* and the recorded discharge energy is its last element.
C10_EnergyRecurrence ==
    \A j \in 1..Recorded :
        LET r == calls[j].result
            e == outputs["Energy [Wh]"][j]
        IN  /\ Len(e) = Len(r.time)
            /\ \A k \in 1..Len(e) : e[k] = EnergyRecurrence(r.time, r.power, k)
            /\ outputs["Discharge Energy [Wh]"][j] = e[Len(e)]

\* C10 amended: the recorded cumulative energy has the length of the time
\* series, energy[k] = s[k] / 3600 for the running sum s[k] = s[k-1] + power[k] *
\* (time[k] - time[k-1]), s[0] = power[0] * (time[0] - 0), and the recorded
\* discharge energy is its last element.
C10_RunningSumOver3600 ==
    \A j \in 1..Recorded :
        LET r == calls[j].result
            e == outputs["Energy [Wh]"][j]
        IN  /\ Len(e) = Len(r.time)
            /\ \A k \in 1..Len(e) :
                  e[k] = FDiv(RunningSum(r.time, r.power, k), Int2F(3600))
            /\ outputs["Discharge Energy [Wh]"][j] = e[Len(e)]

\* C10 witness: a recorded run of three samples with varying power and a first
\* sample after time 0.
C10_Witness ==
    \E j \in 1..Recorded :
        LET r == calls[j].result
        IN  /\ Len(r.time) >= 3
            /\ ~IsConstant(r.power)
            /\ r.time[1] # Int2F(0)
            /\ outputs["Energy [Wh]"][j][1] # Int2F(0)

-----------------------------------------------------------------------------
(* Properties of the variability sampler, checked under SamplerSpec *)

\* A scenario cell has reported a percentage in this run.
Reported(name) == titles[name] # NoValue

\* The exceedance fraction of the baseline pairing of the present samples.
BaselineFraction ==
    ExceedanceFraction(Ratio(neg_areal_capacity, pos_areal_capacity))

\* C1: for N > 0 the exceedance fraction count(ratio < 1) / N of the ratio
\* sequence lies in [0, 1] and the reported percentage lies in [0, 100].
C1_FractionInUnitInterval ==
    percent_more # NoValue =>
        /\ Len(npr_actual) = cfg.N
        /\ cfg.N > 0
        /\ FLeq(Int2F(0), ExceedanceFraction(npr_actual))
        /\ FLeq(ExceedanceFraction(npr_actual), Int2F(1))
        /\ percent_more = PercentMore(npr_actual)
        /\ FLeq(Int2F(0), percent_more)
        /\ FLeq(percent_more, Int2F(100))

\* C1 witness: a reported percentage strictly between 0 and 100 over a ratio
\* sequence that holds an infinite ratio (a zero positive capacity).
C1_Witness ==
    /\ percent_more # NoValue
    /\ FLess(Int2F(0), percent_more)
    /\ FLess(percent_more, Int2F(100))
    /\ \E k \in 1..Len(npr_actual) : ~IsFinite(npr_actual[k])

\* C2 as stated: against the same positive capacities, scaling every negative
\* capacity by f > 1 strictly decreases the exceedance fraction at threshold 1,
\* and f = 1 leaves it unchanged.
C2_StrictDecrease ==
    (npc = "cv" /\ Reported("scenario2")) =>
        /\ (FLess(Int2F(1), cfg.factor) =>
               FLess(ExceedanceFraction(npr_actual), BaselineFraction))
        /\ (cfg.factor = Int2F(1) =>
               ExceedanceFraction(npr_actual) = BaselineFraction)

\* C2 amended: against the same positive capacities, scaling every negative
\* capacity by f > 1 never increases the exceedance fraction at threshold 1 (it
\* decreases or stays equal), and f = 1 leaves it unchanged; the reported
\* percentages compare the same way.
C2_NoIncrease ==
    (npc = "cv" /\ Reported("scenario2")) =>
        /\ npr_actual = Ratio(Scale(neg_areal_capacity, cfg.factor), pos_areal_capacity)
        /\ FLeq(ExceedanceFraction(npr_actual), BaselineFraction)
        /\ FLeq(titles.scenario2, titles.baseline)
        /\ (cfg.factor = Int2F(1) =>
               /\ ExceedanceFraction(npr_actual) = BaselineFraction
               /\ titles.scenario2 = titles.baseline)

\* C2 witness: a factor above 1 that did lower the exceedance fraction.
C2_Witness ==
    /\ npc = "cv"
    /\ Reported("scenario2")
    /\ FLess(Int2F(1), cfg.factor)
    /\ FLess(ExceedanceFraction(npr_actual), BaselineFraction)
    /\ FLess(Int2F(0), ExceedanceFraction(npr_actual))

\* C7: a second complete run that reseeds with the same seed and makes the same
\* draws in the same order with the same parameters yields the sample sequences
\* and the exceedance percentages of the first run.
C7_SeededRunsAgree ==
    run = 2 =>
        /\ Len(draws) <= Len(first.draws)
        /\ \A j \in 1..Len(draws) : draws[j] = first.draws[j]
        /\ \A name \in DOMAIN titles :
              Reported(name) => titles[name] = first.titles[name]
        /\ (npc \in {"done", "error"} =>
              /\ npc = first.npc
              /\ draws = first.draws
              /\ titles = first.titles)

\* C7 witness: a second run has finished all three scenarios over samples
\* that vary.
C7_Witness ==
    /\ run = 2
    /\ npc = "done"
    /\ cfg.N >= 2
    /\ draws[1][1] # draws[1][2]
    /\ Reported("scenario3")

\* C8 as stated: running scenario 2 re-samples the positive loading with a
\* fresh draw, advancing the generator, and computes its ratio against positive
\* samples that are not the baseline's.
C8_Scenario2Resamples ==
    [][(npc = "scenario2" /\ npc' = "cv") =>
          /\ rng' # rng
          /\ Len(draws') = Len(draws) + 1
          /\ npr_actual' = Ratio(Scale(neg_areal_capacity, cfg.factor),
                                 ArealCapacity(Last(draws'), POS_QSP))]_vars

\* C8 amended: running scenario 2 draws nothing: it leaves the generator and
\* the positive capacities unchanged and computes its ratio against the
\* positive sample sequence of the baseline; the fresh positive draw is made by
\* the following cell, for scenario 3.
C8_Scenario2ReusesBaseline ==
    [][/\ (npc = "scenario2" /\ npc' = "cv") =>
             /\ rng' = rng
             /\ draws' = draws
             /\ pos_areal_capacity' = pos_areal_capacity
             /\ npr_actual' = Ratio(Scale(neg_areal_capacity, cfg.factor),
                                    ArealCapacity(draws[2], POS_QSP))
       /\ (npc = "cv" /\ npc' = "scenario3") =>
             /\ Len(draws') = Len(draws) + 1
             /\ pos_areal_capacity_new' = ArealCapacity(Last(draws'), POS_QSP)
             /\ pos_areal_capacity' = pos_areal_capacity]_vars

\* C8 witness: scenario 2 has reported over at least two samples and the
\* generator is where the sampling cell left it.
C8_Witness ==
    /\ npc = "cv"
    /\ Reported("scenario2")
    /\ cfg.N >= 2
    /\ Len(draws) = 2
    /\ pos_areal_capacity = ArealCapacity(draws[2], POS_QSP)

\* C11 as stated: with N = 0 nothing stops the run before the division
\* count(ratio < 1) / N of the baseline cell, so the run reaches the division by
\* zero and its outcome is an undefined value, not a fraction in [0, 1].
C11_DivisionReached ==
    (cfg.N = 0 /\ npc \in {"scenario2", "cv", "scenario3", "done", "error"}) =>
        /\ percent_more # NoValue
        /\ IsNaN(percent_more)

\* C11 amended: no check rejects N = 0: sampling runs and binds empty arrays.
\* The baseline cell then fails at its first line, np.min of the empty positive
\* capacities, before the division count(ratio < 1) / N is reached: the run
\* stops there with no ratio, no percentage and no title bound, so no
\* exceedance fraction is produced. The division itself, evaluated on the empty
\* arrays, would give nan (0 / 0), which is not a value in [0, 1].
C11_StopsBeforeDivision ==
    cfg.N = 0 =>
        /\ npc \in {"seed", "params", "sample", "baseline", "error"}
        /\ percent_more = NoValue
        /\ titles = NoTitles
        /\ (npc \in {"baseline", "error"} =>
              /\ N = 0
              /\ neg_areal_capacity = <<>>
              /\ pos_areal_capacity = <<>>
              /\ IsNaN(BaselineFraction)
              /\ ~FLeq(Int2F(0), BaselineFraction)
              /\ ~FLeq(BaselineFraction, Int2F(1)))

\* C11 witness: a run with N = 0 has sampled two empty arrays and has stopped
\* in the baseline cell.
C11_Witness ==
    /\ cfg.N = 0
    /\ npc = "error"
    /\ Len(draws) = 2
    /\ pos_areal_capacity = <<>>

-----------------------------------------------------------------------------
(* Properties of the two sweeps of the notebook, checked under TwoSweepSpec *)

\* The sequence new is old with exactly one entry appended.
Extends(old, new) ==
    /\ Len(new) = Len(old) + 1
    /\ SubSeq(new, 1, Len(old)) = old

\* C12: sweep results are only appended to. Within a sweep, the step that
\* records an iteration extends every metric sequence of the aggregate by
\* exactly one entry and keeps the earlier entries, and no other step of the
\* sweep touches the aggregate. No step changes the rate list, and once the
\* first sweep has returned its aggregate no step of the second sweep changes
\* any of its sequences; both returned aggregates hold the rate list under
\* "C-rate".
C12_AppendOnly ==
    [][/\ C_rates' = C_rates
       /\ (spc = "solved" /\ spc' = "loop") =>
             /\ \A key \in MetricKeys : Extends(outputs[key], outputs'[key])
             /\ outputs'["C-rate"] = outputs["C-rate"]
       /\ (spc \in {"loop", "solved"} /\ ~(spc = "solved" /\ spc' = "loop")) =>
             outputs' = outputs
       /\ outputs_energy_cell # Unbound =>
             /\ outputs_energy_cell' = outputs_energy_cell
             /\ outputs_energy_cell'["C-rate"] = C_rates'
       /\ outputs_power_cell' # Unbound =>
             /\ cell' = "power"
             /\ outputs_energy_cell' # Unbound
             /\ outputs_power_cell'["C-rate"] = outputs_energy_cell'["C-rate"]
             /\ outputs_power_cell'["C-rate"] = C_rates']_vars

\* C12 witness: both sweeps have returned over a list of two rates, each
\* aggregate holds two entries per metric, and the two aggregates differ.
C12_Witness ==
    /\ cell = "power"
    /\ spc = "returned"
    /\ Len(C_rates) = 2
    /\ outputs_energy_cell # Unbound
    /\ outputs_power_cell # Unbound
    /\ \A key \in MetricKeys :
          /\ Len(outputs_energy_cell[key]) = 2
          /\ Len(outputs_power_cell[key]) = 2
    /\ outputs_power_cell["Time [s]"] # outputs_energy_cell["Time [s]"]
    /\ outputs_power_cell["Energy [Wh]"][1] # outputs_power_cell["Energy [Wh]"][2]

=============================================================================
